---- MODULE Spec2Model ----
(***************************************************************************)
(* AqLedLightning (src/src/main.cpp): a two channel aquarium LED dimmer.   *)
(* loop() derives local time and drives the two PWM outputs from a table   *)
(* of 48 bytes (24 hours x 2 lamps) or from an overrule pair; the handlers *)
(* of the asynchronous web server read and replace the table and set the   *)
(* overrule pair.                                                          *)
(*                                                                         *)
(* Strings (Arduino String) are sequences of one-character strings.        *)
(*                                                                         *)
(* Spec runs every handler to completion between two runs of loop().       *)
(* SpecPreempt runs handle_setconf and handle_overrule statement by        *)
(* statement, with loop() and timer1sec() free to run in between: nothing  *)
(* in main.cpp (no lock, no interrupt mask, no copy of the table) orders a *)
(* handler of the asynchronous server against them.  One handler runs at a *)
(* time in both.                                                           *)
(* SpecDst is Spec with the epoch times around the end of summer time.     *)
(* SpecLog has the debug log: dbgprint() as called from anywhere, and the  *)
(* chunked response of handle_logging with its callback cb_logging;        *)
(* SpecLogFair adds that the response goes on calling the callback.        *)
(* SpecLogTwo has a second response of handle_logging begun while the      *)
(* first is being sent, both calling cb_logging.                           *)
(* SpecFile has the file requests and the test request.  The calls of      *)
(* dbgprint() by the handlers of Spec are left to SpecLog.                 *)
(***************************************************************************)
EXTENDS Integers, Sequences, FiniteSets, TLC

(***************************************************************************)
(* Bounds of the model.                                                    *)
(***************************************************************************)
NPatterns   == 1    \* generated 48-value tables offered to set-schedule
NUtc        == 2    \* moments the time source can report, one hour apart
MaxRequests == 2    \* requests served in one behaviour of Spec
MaxPreempt  == 1    \* requests served in one behaviour of SpecPreempt
MaxTicks    == 1    \* calls of timer1sec() between two refreshes of ltime
MaxLines    == 3    \* lines in dbglines
MaxChunk    == 2    \* the largest maxLen cb_logging is called with

(***************************************************************************)
(* Program constants.                                                      *)
(***************************************************************************)
NSettings == 48     \* set_t.values[48]
Byte      == 256    \* uint8_t

Slots == 0 .. (NSettings - 1)

\* a percentage: what is above 100 is taken as 100
U8Percent(n) == IF n > 100 THEN 100 ELSE n

\* the value an uint8_t holds when it is assigned n
U8(n) == n % Byte

(***************************************************************************)
(* Arduino String operations used by the handlers.                         *)
(***************************************************************************)
Digits == <<"0", "1", "2", "3", "4", "5", "6", "7", "8", "9">>

IsDigit(c) == \E d \in 1 .. 10 : Digits[d] = c

DigitVal(c) == (CHOOSE d \in 1 .. 10 : Digits[d] = c) - 1

IsSpace(c) == c = " "

RECURSIVE atolDigits(_, _, _)
atolDigits(s, k, acc) ==
    IF k <= Len(s) /\ IsDigit(s[k])
    THEN atolDigits(s, k + 1, acc * 10 + DigitVal(s[k]))
    ELSE acc

RECURSIVE skipSpace(_, _)
skipSpace(s, k) ==
    IF k <= Len(s) /\ IsSpace(s[k]) THEN skipSpace(s, k + 1) ELSE k

\* String::toInt() is atol(): leading blanks, an optional sign, then digits;
\* anything else ends the number, and no digits at all give 0.
toInt(s) ==
    LET k == skipSpace(s, 1)
    IN  IF k <= Len(s) /\ s[k] = "-" THEN 0 - atolDigits(s, k + 1, 0)
        ELSE IF k <= Len(s) /\ s[k] = "+" THEN atolDigits(s, k + 1, 0)
        ELSE atolDigits(s, k, 0)

\* String::indexOf(","): 0-based position of the first comma, -1 if none.
RECURSIVE indexFrom(_, _)
indexFrom(s, k) ==
    IF k > Len(s) THEN -1
    ELSE IF s[k] = "," THEN k - 1
    ELSE indexFrom(s, k + 1)

indexOf(s) == indexFrom(s, 1)

\* String::substring(from): the characters from 0-based position from on.
substring(s, from) == SubSeq(s, from + 1, Len(s))

\* String(uint8_t): the decimal digits of n, no leading zeros.
RECURSIVE StringOf(_)
StringOf(n) ==
    IF n < 10 THEN <<Digits[n + 1]>>
    ELSE StringOf(n \div 10) \o <<Digits[(n % 10) + 1]>>

(***************************************************************************)
(* Requests offered to the handlers: the numbers a client sends, and the   *)
(* text that carries them.                                                 *)
(***************************************************************************)
RECURSIVE Join(_, _)
\* the values v[0 .. n-1] as decimal numbers separated by commas
Join(v, n) ==
    IF n = 0 THEN <<>>
    ELSE IF n = 1 THEN StringOf(v[0])
    ELSE Join(v, n - 1) \o <<",">> \o StringOf(v[n - 1])

Pattern(p) == [j \in Slots |-> ((j + 1) * (6 * p + 1) + 99) % 101]

Scenario == [j \in Slots |-> IF j = 40 THEN 80 ELSE IF j = 41 THEN 40 ELSE 0]

Erased == [j \in Slots |-> 255]

FullTables == {Pattern(p) : p \in 1 .. NPatterns} \cup {Scenario}

\* the tables a device starts with, which a get-schedule request answers
EchoTables == {Erased, Scenario}

\* a set-schedule request carries the first n values of vals; a short one
\* comes without and with a comma at its end, and one that sends back the
\* answer of a get-schedule request has a comma behind each of 48 values
SetInputs == {[vals |-> t, n |-> NSettings, comma |-> FALSE] : t \in FullTables}
             \cup {[vals |-> Pattern(1), n |-> 10, comma |-> c] : c \in BOOLEAN}
             \cup {[vals |-> t, n |-> NSettings, comma |-> TRUE] : t \in EchoTables}

\* an override request carries one or two values: "5,5", "80,40", "7", "9,"
OvInputs == {[vals |-> [j \in 0 .. 1 |-> 5], n |-> 2, comma |-> FALSE],
             [vals |-> [j \in 0 .. 1 |-> IF j = 0 THEN 80 ELSE 40], n |-> 2,
              comma |-> FALSE],
             [vals |-> [j \in 0 .. 1 |-> 7], n |-> 1, comma |-> FALSE],
             [vals |-> [j \in 0 .. 1 |-> 9], n |-> 1, comma |-> TRUE]}

NoInput == [vals |-> [j \in 0 .. 1 |-> 0], n |-> 0, comma |-> FALSE]

\* the text of a request: the values joined, then a comma if it ends in one
Body == [r \in SetInputs \cup OvInputs |->
            Join(r.vals, r.n) \o (IF r.comma THEN <<",">> ELSE <<>>)]

(***************************************************************************)
(* uint32_t arithmetic of loop(): a value is <<high, low>>, two 16 bit     *)
(* halves, so that products stay inside the checker's integers.            *)
(***************************************************************************)
Half == 65536

U32(hi, lo) == <<hi, lo>>

\* (m * k) mod 2^32 for a factor k below 2^15
U32Mul(m, k) ==
    LET p == m[2] * k
    IN  <<(m[1] * k + (p \div Half)) % Half, p % Half>>

U32Gt(a, b) == a[1] > b[1] \/ (a[1] = b[1] /\ a[2] > b[2])

U32Ge(a, b) == a = b \/ U32Gt(a, b)

(***************************************************************************)
(* TimeLib and Timezone as loop() uses them: hour(), and myTZ.toLocal()    *)
(* with the rule pair CEST / CET.                                          *)
(***************************************************************************)
SecsPerMin  == 60
SecsPerHour == 3600
SecsPerDay  == 86400

\* the hour on a clock that shows midnight as 24
hourMidnight24(t) ==
    IF (t \div SecsPerHour) % 24 = 0 THEN 24 ELSE (t \div SecsPerHour) % 24

\* hour(): the hour of the day of t, 0..23
hour(t) == (t \div SecsPerHour) % 24

LeapYear(y) == (y % 4 = 0 /\ y % 100 # 0) \/ y % 400 = 0

DaysInYear(y) == IF LeapYear(y) THEN 366 ELSE 365

DaysInMonth(y, m) ==
    IF m = 2 THEN (IF LeapYear(y) THEN 29 ELSE 28)
    ELSE IF m \in {4, 6, 9, 11} THEN 30 ELSE 31

RECURSIVE DaysBeforeYear(_)
DaysBeforeYear(y) == IF y <= 1970 THEN 0 ELSE DaysBeforeYear(y - 1) + DaysInYear(y - 1)

RECURSIVE DaysBeforeMonth(_, _)
DaysBeforeMonth(y, m) == IF m <= 1 THEN 0 ELSE DaysBeforeMonth(y, m - 1) + DaysInMonth(y, m - 1)

RECURSIVE YearFrom(_, _)
YearFrom(y, days) == IF days < DaysInYear(y) THEN y ELSE YearFrom(y + 1, days - DaysInYear(y))

year(t) == YearFrom(1970, t \div SecsPerDay)

\* weekday(): 1 = Sunday
weekday(t) == (((t \div SecsPerDay) + 4) % 7) + 1

\* makeTime() of day 1 of month m of year y at hh:00:00
makeTime(y, m, hh) == (DaysBeforeYear(y) + DaysBeforeMonth(y, m)) * SecsPerDay + hh * SecsPerHour

\* TimeChangeRule {abbrev, week, dow, month, hour, offset}; week Last = 0, Sun = 1
CEST == [week |-> 0, dow |-> 1, month |-> 3,  hour |-> 2, offset |-> 120]
CET  == [week |-> 0, dow |-> 1, month |-> 10, hour |-> 3, offset |-> 60]

\* Timezone::toTime_t(): the local moment the rule r takes effect in year yr
toTime_t(r, yr) ==
    LET isLast == r.week = 0
        m    == IF isLast THEN (IF r.month + 1 > 12 THEN 1 ELSE r.month + 1) ELSE r.month
        y    == IF isLast /\ r.month + 1 > 12 THEN yr + 1 ELSE yr
        w    == IF isLast THEN 1 ELSE r.week
        t    == makeTime(y, m, r.hour)
        t2   == t + (((r.dow - weekday(t) + 7) % 7) + (w - 1) * 7) * SecsPerDay
    IN  IF isLast THEN t2 - 7 * SecsPerDay ELSE t2

\* Timezone::utcIsDST() for Timezone myTZ ( CEST, CET )
utcIsDST(utc) ==
    LET dstUTC == toTime_t(CEST, year(utc)) - CET.offset * SecsPerMin
        stdUTC == toTime_t(CET, year(utc)) - CEST.offset * SecsPerMin
    IN  IF stdUTC = dstUTC THEN FALSE
        ELSE IF stdUTC > dstUTC THEN utc >= dstUTC /\ utc < stdUTC
        ELSE ~(utc >= stdUTC /\ utc < dstUTC)

toLocal(utc) ==
    IF utcIsDST(utc) THEN utc + CEST.offset * SecsPerMin
    ELSE utc + CET.offset * SecsPerMin

(***************************************************************************)
(* What the environment offers loop(): uptimes read by millis() and the    *)
(* epoch time of the NTP client.                                           *)
(***************************************************************************)
\* 7159 ms, 500000 ms
MillisInputs == {U32(0, 7159), U32(7, 41248)}

\* 2021-08-08 18:59:59 UTC is 20:59:59 CEST
UtcBase == 1628449199

UtcInputs == {UtcBase + k * SecsPerHour : k \in 0 .. (NUtc - 1)}

\* 2021-10-31 00:59:59 UTC is 02:59:59 CEST, the last second of summer time
DstBase == 1635641999

\* epoch times around the end of summer time, a second apart
DstInputs == {DstBase + k : k \in 0 .. (NUtc - 1)}

\* myTZ.toLocal() of each of them
Local == [u \in UtcInputs \cup DstInputs |-> toLocal(u)]

(***************************************************************************)
(* The debug log.  A line is the text dbgprint() formats, a sequence of    *)
(* characters without line feed; the lines on offer are short ones.        *)
(***************************************************************************)
\* the lines dbgprint() is called with
Lines == {<<"a">>, <<"b", "c">>}

\* the line of handle_logging
LoggingLine == <<"l", "g">>

\* dbglines at the end of setup()
BootLog == <<<<"s">>>>

\* the free heap dbgprint() compares with
HeapLimit == 8000

\* values of ESP.getFreeHeap()
HeapInputs == {HeapLimit, HeapLimit + 1}

HeapAtBoot == HeapLimit + 1

NoChunk == [maxLen |-> 0, len |-> 0]

(***************************************************************************)
(* The urls of file requests.                                              *)
(***************************************************************************)
Urls == {<<"/", "i", ".", "h", "t", "m", "l">>,
         <<"/", "k", ".", "p", "w">>,
         <<"/", "k", ".", "p", "w", ".", "g", "z">>,
         <<"/", "p", "w">>,
         <<"/", ".", "p", "w">>}

NoFile == [url |-> <<>>, exists |-> FALSE]

\* no second response of handle_logging
NoSession == [streaming |-> FALSE, index |-> 0, out |-> <<>>, chunk |-> NoChunk,
              snap |-> <<>>]

(***************************************************************************)
(* State.                                                                  *)
(***************************************************************************)
VARIABLES
    settings,     \* set_t settings: values[48]
    eeprom,       \* the 48 bytes at EEPROM address 0
    overrule,     \* bool overrule
    ovA, ovB,     \* uint8_t ovA, ovB
    intensityA,   \* uint8_t intensityA
    intensityB,   \* uint8_t intensityB
    ltime,        \* time_t ltime
    rfrltm,       \* loop()'s static rfrltm
    millis,       \* the uptime millis() read last
    synced,       \* the NTP client has received a time at least once
    epoch,        \* the epoch time ltime was last derived from, 0 if never
    ticks,        \* calls of timer1sec() since ltime was last derived
    pc,           \* position of the handler in progress, "idle" if none
    value,        \* the handler's local String value
    i,            \* handle_setconf's loop counter
    reply,        \* the last response sent
    sent,         \* the numbers carried by the last set-schedule request
    ovsent,       \* the numbers carried by the last override request
    old,          \* settings, eeprom, overrule, ovA, ovB when the last
                  \* set-schedule, override or reset request began
    standing,     \* the numbers of the last override request, from its
                  \* completion to the next set-schedule, override or reset
                  \* request; <<>> otherwise
    fresh,        \* TRUE from the completion of a set-schedule request to
                  \* the next override or reset request
    target,       \* <<newA, newB>> of the last run of loop()
    writes,       \* the analogWrite calls of the last run of loop(), in order
    last,         \* the step taken last
    nreq,         \* requests begun so far
    pwm,          \* the value analogWrite() has set last on each lamp's pin
    dbglines,     \* std::vector<String> dbglines
    heap,         \* the value of ESP.getFreeHeap() read last by dbgprint()
    cbi,          \* cb_logging's static i
    nrl,          \* cb_logging's static nrl
    linebuf,      \* cb_logging's static linebuf, up to its terminating zero
    p_in,         \* cb_logging's static p_in, a position in linebuf from 1
    streaming,    \* a chunked response of handle_logging is being sent
    index,        \* the bytes that response has been given so far
    out,          \* these bytes
    chunk,        \* maxLen and the result of the last call of cb_logging
    snap,         \* dbglines at the first call of cb_logging for the response
    asked,        \* the url of the last file request, and whether the file
                  \* system holds a file of that name
    second        \* a second chunked response of handle_logging, sent to
                  \* another client while the first is being sent: its
                  \* streaming, index, out, chunk and snap

vars == <<settings, eeprom, overrule, ovA, ovB, intensityA, intensityB,
          ltime, rfrltm, millis, synced, epoch, ticks,
          pc, value, i, reply, sent, ovsent, old, standing, fresh, target,
          writes, last, nreq, pwm, dbglines, heap, cbi, nrl, linebuf, p_in,
          streaming, index, out, chunk, snap, asked, second>>

shared  == <<settings, eeprom, overrule, ovA, ovB>>
outputs == <<intensityA, intensityB, target, writes, pwm>>
clock   == <<ltime, rfrltm, millis, synced, epoch, ticks>>
locals  == <<pc, value, i>>
ghosts  == <<sent, ovsent, old, standing, fresh>>
statics == <<cbi, nrl, linebuf, p_in>>
session == <<streaming, index, out, chunk, snap>>
logvars == <<dbglines, heap, statics, session, asked, second>>

Snapshot == [settings |-> settings, eeprom |-> eeprom, overrule |-> overrule,
             ovA |-> ovA, ovB |-> ovB]

NoReply == [code |-> 0, text |-> <<>>]

\* the globals as initialised at their definitions, and setup(): settings is
\* read from EEPROM
Init ==
    /\ eeprom \in {Erased, Scenario}
    /\ settings = eeprom
    /\ overrule = FALSE
    /\ ovA = 0
    /\ ovB = 0
    /\ intensityA = 0
    /\ intensityB = 0
    /\ pwm = [LAMPA |-> 0, LAMPB |-> 0]
    /\ ltime = 0
    /\ rfrltm = U32(0, 0)
    /\ millis = U32(0, 0)
    /\ synced = FALSE
    /\ epoch = 0
    /\ ticks = 0
    /\ pc = "idle"
    /\ value = <<>>
    /\ i = 0
    /\ reply = NoReply
    /\ sent = NoInput
    /\ ovsent = NoInput
    /\ old = [settings |-> eeprom, eeprom |-> eeprom, overrule |-> FALSE,
              ovA |-> 0, ovB |-> 0]
    /\ standing = <<>>
    /\ fresh = FALSE
    /\ target = <<0, 0>>
    /\ writes = <<>>
    /\ last = "setup"
    /\ nreq = 0
    /\ dbglines = BootLog
    /\ heap = HeapAtBoot
    /\ cbi = 0
    /\ nrl = 0
    /\ linebuf = <<>>
    /\ p_in = 1
    /\ streaming = FALSE
    /\ index = 0
    /\ out = <<>>
    /\ chunk = NoChunk
    /\ snap = <<>>
    /\ asked = NoFile
    /\ second = NoSession

\* overrule carried over the restart
OverruleRestored(o) == o

\* overrule as its definition initialises it, o being its value before the
\* restart
OverruleAtStart(o) == FALSE

\* ESP.reset(): the globals are initialised again and setup() runs again
Reboot ==
    /\ settings' = eeprom
    /\ overrule' = OverruleAtStart(overrule)
    /\ ovA' = 0
    /\ ovB' = 0
    /\ intensityA' = 0
    /\ intensityB' = 0
    /\ pwm' = [LAMPA |-> 0, LAMPB |-> 0]
    /\ ltime' = 0
    /\ rfrltm' = U32(0, 0)
    /\ millis' = U32(0, 0)
    /\ synced' = FALSE
    /\ epoch' = 0
    /\ ticks' = 0
    /\ pc' = "idle"
    /\ value' = <<>>
    /\ i' = 0
    /\ reply' = NoReply
    /\ old' = Snapshot
    /\ standing' = <<>>
    /\ fresh' = FALSE
    /\ target' = <<0, 0>>
    /\ writes' = <<>>
    /\ last' = "setup"
    /\ ovsent' = NoInput
    /\ dbglines' = BootLog
    /\ heap' = HeapAtBoot
    /\ cbi' = 0
    /\ nrl' = 0
    /\ linebuf' = <<>>
    /\ p_in' = 1
    /\ streaming' = FALSE
    /\ index' = 0
    /\ out' = <<>>
    /\ chunk' = NoChunk
    /\ snap' = <<>>
    /\ asked' = NoFile
    /\ second' = NoSession
    /\ UNCHANGED <<eeprom, sent>>

handle_reset ==
    /\ pc = "idle"
    /\ nreq < MaxRequests
    /\ nreq' = nreq + 1
    /\ Reboot

(***************************************************************************)
(* timer1sec                                                               *)
(***************************************************************************)
\* a step of a thousand, as for a time in milliseconds
TickMillis(t) == t + 1000

\* ltime++
Tick(t) == t + 1

timer1sec ==
    /\ UNCHANGED logvars
    /\ ticks < MaxTicks
    /\ ltime' = Tick(ltime)
    /\ ticks' = ticks + 1
    /\ last' = "timer1sec"
    /\ UNCHANGED <<shared, outputs, rfrltm, millis, synced, epoch, locals,
                   reply, ghosts, nreq>>

(***************************************************************************)
(* loop                                                                    *)
(***************************************************************************)
\* the new refresh moment set at uptime m
NextRefresh(m) == U32Mul(U32Mul(m, 1000), 600)

\* is ltime refreshed at uptime m, ok being the result of timeClient.update()
RefreshDue(m, ok) == ok /\ U32Gt(m, rfrltm)

\* the refresh of ltime: u is the value of timeClient.getEpochTime(), one of U
Refresh(m, ok, U) ==
    IF RefreshDue(m, ok)
    THEN \E u \in U :
            /\ u >= epoch + ticks
            /\ rfrltm' = NextRefresh(m)
            /\ ltime' = Local[u]
            /\ epoch' = u
            /\ ticks' = 0
    ELSE UNCHANGED <<rfrltm, ltime, epoch, ticks>>

\* channel A taken from the table whatever overrule says
NewAFromTable(t) == settings[hour(t) * 2]

\* the new intensities chosen by loop() at local time t
NewA(t) == IF overrule THEN ovA ELSE settings[hour(t) * 2]

\* channel B taken from the slot of channel A
NewBFromSlotA(t) == IF overrule THEN ovB ELSE settings[hour(t) * 2]

NewB(t) == IF overrule THEN ovB ELSE settings[hour(t) * 2 + 1]

\* a write on every pass
WriteAlways(new, cur) == TRUE

\* does loop() write a lamp: new is the new intensity, cur the one remembered
WriteNeeded(new, cur) == new # cur

\* the value scaled to an 8 bit duty cycle
WrittenScaled(new) == (new * 255) \div 100

\* the value analogWrite() is given when new is the intensity remembered
Written(new) == new

\* loop() with the epoch times U on offer; time_ok is assigned before it is
\* read in every run: it is the input ok
LoopOn(U) ==
    \E m \in MillisInputs, ok \in BOOLEAN :
        /\ U32Ge(m, millis)
        /\ millis' = m
        /\ synced' = (synced \/ ok)
        /\ Refresh(m, ok, U)
        /\ LET newA == NewA(ltime')
               newB == NewB(ltime')
           IN  /\ target' = <<newA, newB>>
               /\ intensityA' = IF WriteNeeded(newA, intensityA) THEN newA ELSE intensityA
               /\ intensityB' = IF WriteNeeded(newB, intensityB) THEN newB ELSE intensityB
               /\ writes' = (IF WriteNeeded(newA, intensityA)
                             THEN <<<<"LAMPA", Written(newA)>>>> ELSE <<>>)
                            \o (IF WriteNeeded(newB, intensityB)
                                THEN <<<<"LAMPB", Written(newB)>>>> ELSE <<>>)
               /\ pwm' = [LAMPA |-> IF WriteNeeded(newA, intensityA)
                                    THEN Written(newA) ELSE pwm.LAMPA,
                          LAMPB |-> IF WriteNeeded(newB, intensityB)
                                    THEN Written(newB) ELSE pwm.LAMPB]
        /\ last' = "loop"
        /\ UNCHANGED <<shared, locals, reply, ghosts, nreq, logvars>>

\* loop() in August
Loop == LoopOn(UtcInputs)

\* loop() around the end of summer time
LoopDst == LoopOn(DstInputs)

(***************************************************************************)
(* handle_getconf                                                          *)
(***************************************************************************)
RECURSIVE getconfReply(_)
\* the reply after the first n settings were added
getconfReply(n) ==
    IF n = 0 THEN <<>>
    ELSE getconfReply(n - 1) \o StringOf(settings[n - 1]) \o <<",">>

handle_getconf ==
    /\ UNCHANGED logvars
    /\ pc = "idle"
    /\ nreq < MaxRequests
    /\ nreq' = nreq + 1
    /\ reply' = [code |-> 200, text |-> getconfReply(NSettings)]
    /\ last' = "getconf"
    /\ UNCHANGED <<shared, outputs, clock, locals, ghosts>>

(***************************************************************************)
(* handle_setconf                                                          *)
(***************************************************************************)
\* the rest of the text taken from the comma itself
AdvanceFromComma(v) == IF indexOf(v) > 0 THEN substring(v, indexOf(v)) ELSE v

\* the string left when the number at its head has been taken
Advance(v) == IF indexOf(v) > 0 THEN substring(v, indexOf(v) + 1) ELSE v

\* one pass of the for loop over s = [settings, value, i]
SetconfPass(s) ==
    [settings |-> [s.settings EXCEPT ![s.i] = U8(toInt(s.value))],
     value    |-> Advance(s.value),
     i        |-> s.i + 1]

RECURSIVE SetconfLoop(_)
\* the for loop from s on
SetconfLoop(s) == IF s.i < NSettings THEN SetconfLoop(SetconfPass(s)) ELSE s

\* overrule left as it was
OverruleKept(o) == o

\* overrule after "overrule = false", o being its value before
OverruleAfterSet(o) == FALSE

\* the block left as it was, nothing committed
EepromKept(tbl) == eeprom

\* what EEPROM.put ( 0, settings ) and EEPROM.commit() leave at address 0
EepromPut(tbl) == tbl

SetconfReply == [code |-> 200, text |-> <<"SET command accepted">>]

\* The table the for loop leaves for each request.  The loop assigns every
\* element, values[0] to values[47], so the table does not depend on the one
\* the loop started from: it is run once for each request, from Erased.
Parsed == [r \in SetInputs |->
             SetconfLoop([settings |-> Erased, value |-> Body[r], i |-> 0]).settings]

handle_setconf ==
    /\ UNCHANGED logvars
    /\ pc = "idle"
    /\ nreq < MaxRequests
    /\ nreq' = nreq + 1
    /\ \E r \in SetInputs :
          /\ sent' = r
          /\ settings' = Parsed[r]
    /\ overrule' = OverruleAfterSet(overrule)
    /\ eeprom' = EepromPut(settings')
    /\ reply' = SetconfReply
    /\ old' = Snapshot
    /\ standing' = <<>>
    /\ fresh' = TRUE
    /\ last' = "setconf"
    /\ UNCHANGED <<ovA, ovB, outputs, clock, locals, ovsent>>

(***************************************************************************)
(* handle_overrule                                                         *)
(***************************************************************************)
\* ovB after the request: the number behind the comma of v, else cur
SecondValue(v, cur) ==
    IF indexOf(v) > 0 THEN U8(toInt(substring(v, indexOf(v) + 1))) ELSE cur

OverruleReply == [code |-> 200, text |-> <<"Overrule command accepted">>]

InputSeq(r) == [k \in 1 .. r.n |-> r.vals[k - 1]]

handle_overrule ==
    /\ UNCHANGED logvars
    /\ pc = "idle"
    /\ nreq < MaxRequests
    /\ nreq' = nreq + 1
    /\ \E r \in OvInputs :
          /\ ovsent' = r
          /\ standing' = InputSeq(r)
          /\ ovA' = U8(toInt(Body[r]))
          /\ ovB' = SecondValue(Body[r], ovB)
    /\ overrule' = TRUE
    /\ reply' = OverruleReply
    /\ old' = Snapshot
    /\ fresh' = FALSE
    /\ last' = "overrule"
    /\ UNCHANGED <<settings, eeprom, outputs, clock, locals, sent>>

(***************************************************************************)
(* handle_setconf and handle_overrule, statement by statement.             *)
(***************************************************************************)
SetconfBegin ==
    /\ UNCHANGED logvars
    /\ pc = "idle"
    /\ nreq < MaxPreempt
    /\ nreq' = nreq + 1
    /\ \E r \in SetInputs :
          /\ sent' = r
          /\ value' = Body[r]
    /\ i' = 0
    /\ old' = Snapshot
    /\ standing' = <<>>
    /\ pc' = "setconf_loop"
    /\ last' = "setconf_begin"
    /\ UNCHANGED <<shared, outputs, clock, reply, fresh, ovsent>>

SetconfIter ==
    /\ UNCHANGED logvars
    /\ pc = "setconf_loop"
    /\ LET s == SetconfPass([settings |-> settings, value |-> value, i |-> i])
       IN  /\ settings' = s.settings
           /\ value' = s.value
           /\ i' = s.i
           /\ pc' = IF s.i < NSettings THEN "setconf_loop" ELSE "setconf_clear"
    /\ last' = "setconf_iter"
    /\ UNCHANGED <<eeprom, overrule, ovA, ovB, outputs, clock, reply, ghosts, nreq>>

SetconfClear ==
    /\ UNCHANGED logvars
    /\ pc = "setconf_clear"
    /\ overrule' = OverruleAfterSet(overrule)
    /\ pc' = "setconf_save"
    /\ last' = "setconf_clear"
    /\ UNCHANGED <<settings, eeprom, ovA, ovB, outputs, clock, value, i, reply,
                   ghosts, nreq>>

SetconfSave ==
    /\ UNCHANGED logvars
    /\ pc = "setconf_save"
    /\ eeprom' = EepromPut(settings)
    /\ reply' = SetconfReply
    /\ fresh' = TRUE
    /\ value' = <<>>
    /\ i' = 0
    /\ pc' = "idle"
    /\ last' = "setconf"
    /\ UNCHANGED <<settings, overrule, ovA, ovB, outputs, clock, sent, ovsent, old,
                   standing, nreq>>

OverruleBegin ==
    /\ UNCHANGED logvars
    /\ pc = "idle"
    /\ nreq < MaxPreempt
    /\ nreq' = nreq + 1
    /\ \E r \in OvInputs :
          /\ ovsent' = r
          /\ value' = Body[r]
    /\ old' = Snapshot
    /\ standing' = <<>>
    /\ fresh' = FALSE
    /\ pc' = "overrule_flag"
    /\ last' = "overrule_begin"
    /\ UNCHANGED <<shared, outputs, clock, i, reply, sent>>

OverruleFlag ==
    /\ UNCHANGED logvars
    /\ pc = "overrule_flag"
    /\ overrule' = TRUE
    /\ pc' = "overrule_A"
    /\ last' = "overrule_flag"
    /\ UNCHANGED <<settings, eeprom, ovA, ovB, outputs, clock, value, i, reply,
                   ghosts, nreq>>

OverruleA ==
    /\ UNCHANGED logvars
    /\ pc = "overrule_A"
    /\ ovA' = U8(toInt(value))
    /\ pc' = "overrule_B"
    /\ last' = "overrule_A"
    /\ UNCHANGED <<settings, eeprom, overrule, ovB, outputs, clock, value, i,
                   reply, ghosts, nreq>>

OverruleB ==
    /\ UNCHANGED logvars
    /\ pc = "overrule_B"
    /\ ovB' = SecondValue(value, ovB)
    /\ value' = <<>>
    /\ reply' = OverruleReply
    /\ standing' = InputSeq(ovsent)
    /\ pc' = "idle"
    /\ last' = "overrule"
    /\ UNCHANGED <<settings, eeprom, overrule, ovA, outputs, clock, i, sent, ovsent,
                   old, fresh, nreq>>

(***************************************************************************)
(* dbgprint                                                                *)
(***************************************************************************)
\* a line is stored also with the free heap at the limit
HeapOkFromLimit(h) == h >= HeapLimit

\* ESP.getFreeHeap() > 8000
HeapOk(h) == h > HeapLimit

\* dbglines after dbgprint() of line with free heap h
DbgAppend(log, line, h) == IF HeapOk(h) THEN Append(log, line) ELSE log

\* a call of dbgprint() by setup(), a handler or another function
dbgprint ==
    /\ \E line \in Lines, h \in HeapInputs :
          /\ HeapOk(h) => Len(dbglines) < MaxLines
          /\ heap' = h
          /\ dbglines' = DbgAppend(dbglines, line, h)
    /\ last' = "dbgprint"
    /\ UNCHANGED <<shared, outputs, clock, locals, reply, ghosts, nreq, statics,
                   session, asked, second>>

(***************************************************************************)
(* handle_logging and cb_logging                                           *)
(***************************************************************************)
\* a logging request when no response is being sent
handle_logging ==
    /\ pc = "idle"
    /\ ~streaming
    /\ ~second.streaming
    /\ \E h \in HeapInputs :
          /\ HeapOk(h) => Len(dbglines) < MaxLines
          /\ heap' = h
          /\ dbglines' = DbgAppend(dbglines, LoggingLine, h)
    /\ streaming' = TRUE
    /\ index' = 0
    /\ out' = <<>>
    /\ chunk' = NoChunk
    /\ snap' = <<>>
    /\ last' = "logging"
    /\ UNCHANGED <<shared, outputs, clock, locals, reply, ghosts, nreq, statics,
                   asked, second>>

\* the line of handle_test
TestLine == <<"t">>

handle_test ==
    /\ pc = "idle"
    /\ \E h \in HeapInputs :
          /\ HeapOk(h) => Len(dbglines) < MaxLines
          /\ heap' = h
          /\ dbglines' = DbgAppend(dbglines, TestLine, h)
    /\ reply' = [code |-> 200, text |-> <<"Free memory is %d">>]
    /\ last' = "test"
    /\ UNCHANGED <<shared, outputs, clock, locals, ghosts, nreq, statics, session,
                   asked, second>>

(***************************************************************************)
(* getContentType and onFileRequest                                        *)
(***************************************************************************)
\* String::endsWith
endsWith(s, suffix) ==
    /\ Len(suffix) <= Len(s)
    /\ SubSeq(s, Len(s) - Len(suffix) + 1, Len(s)) = suffix

\* password files typed as plain text
getContentTypePlain(filename) ==
    IF      endsWith(filename, <<".", "h", "t", "m", "l">>) THEN "text/html"
    ELSE IF endsWith(filename, <<".", "p", "n", "g">>) THEN "image/png"
    ELSE IF endsWith(filename, <<".", "g", "i", "f">>) THEN "image/gif"
    ELSE IF endsWith(filename, <<".", "j", "p", "g">>) THEN "image/jpeg"
    ELSE IF endsWith(filename, <<".", "i", "c", "o">>) THEN "image/x-icon"
    ELSE IF endsWith(filename, <<".", "c", "s", "s">>) THEN "text/css"
    ELSE IF endsWith(filename, <<".", "z", "i", "p">>) THEN "application/x-zip"
    ELSE IF endsWith(filename, <<".", "g", "z">>) THEN "application/x-gzip"
    ELSE "text/plain"

getContentType(filename) ==
    IF      endsWith(filename, <<".", "h", "t", "m", "l">>) THEN "text/html"
    ELSE IF endsWith(filename, <<".", "p", "n", "g">>) THEN "image/png"
    ELSE IF endsWith(filename, <<".", "g", "i", "f">>) THEN "image/gif"
    ELSE IF endsWith(filename, <<".", "j", "p", "g">>) THEN "image/jpeg"
    ELSE IF endsWith(filename, <<".", "i", "c", "o">>) THEN "image/x-icon"
    ELSE IF endsWith(filename, <<".", "c", "s", "s">>) THEN "text/css"
    ELSE IF endsWith(filename, <<".", "z", "i", "p">>) THEN "application/x-zip"
    ELSE IF endsWith(filename, <<".", "g", "z">>) THEN "application/x-gzip"
    ELSE IF endsWith(filename, <<".", "p", "w">>) THEN ""
    ELSE "text/plain"

\* the line of onFileRequest
FileLine == <<"f">>

\* request->send ( LittleFS, fnam, ct ): the file as ct if the file system
\* holds it, 404 without a text if not
SendFile(fnam, ct, exists) ==
    IF exists THEN [code |-> 200, text |-> <<"file", fnam, ct>>]
    ELSE [code |-> 404, text |-> <<>>]

onFileRequest ==
    /\ pc = "idle"
    /\ \E fnam \in Urls, exists \in BOOLEAN, h \in HeapInputs :
          /\ HeapOk(h) => Len(dbglines) < MaxLines
          /\ heap' = h
          /\ dbglines' = DbgAppend(dbglines, FileLine, h)
          /\ asked' = [url |-> fnam, exists |-> exists]
          /\ reply' = IF getContentType(fnam) = ""
                       THEN [code |-> 404, text |-> <<"File not found">>]
                       ELSE SendFile(fnam, getContentType(fnam), exists)
    /\ last' = "file"
    /\ UNCHANGED <<shared, outputs, clock, locals, ghosts, nreq, statics, session,
                   second>>

\* the line copied without a line feed
NextLineBare(log, k) == log[k + 1]

\* linebuf after strcpy of dbglines[k] and strcat of "\n"
NextLine(log, k) == log[k + 1] \o <<"\n">>

\* a character less than the buffer holds
SpaceLeftButOne(n) == n > 1

\* maxLen-- > 0
SpaceLeft(n) == n > 0

\* the statics at the start of the while loop for a call with position inx
CbStart(inx) ==
    IF inx = 0
    THEN [i |-> 0, nrl |-> Len(dbglines), linebuf |-> <<>>, p_in |-> 1]
    ELSE [i |-> cbi, nrl |-> nrl, linebuf |-> linebuf, p_in |-> p_in]

RECURSIVE CbFill(_, _, _)
\* the while loop: s the statics, buf the buffer filled so far, n the value
\* of maxLen
CbFill(s, buf, n) ==
    IF ~SpaceLeft(n) THEN [s |-> s, buf |-> buf]
    ELSE IF s.p_in > Len(s.linebuf)
         THEN IF s.i = s.nrl
              THEN [s |-> s, buf |-> buf]
              ELSE LET line == NextLine(dbglines, s.i)
                   IN  CbFill([s EXCEPT !.i = s.i + 1, !.linebuf = line, !.p_in = 2],
                              Append(buf, line[1]), n - 1)
         ELSE CbFill([s EXCEPT !.p_in = s.p_in + 1],
                     Append(buf, s.linebuf[s.p_in]), n - 1)

\* one call of cb_logging by the chunked response, which ends when it gets 0
cb_logging ==
    /\ streaming
    /\ \E maxLen \in 1 .. MaxChunk :
          LET r == CbFill(CbStart(index), <<>>, maxLen)
          IN  /\ cbi' = r.s.i
              /\ nrl' = r.s.nrl
              /\ linebuf' = r.s.linebuf
              /\ p_in' = r.s.p_in
              /\ out' = out \o r.buf
              /\ index' = index + Len(r.buf)
              /\ chunk' = [maxLen |-> maxLen, len |-> Len(r.buf)]
              /\ streaming' = (Len(r.buf) > 0)
    /\ snap' = IF index = 0 THEN dbglines ELSE snap
    /\ last' = "cb_logging"
    /\ UNCHANGED <<shared, outputs, clock, locals, reply, ghosts, nreq, dbglines,
                   heap, asked, second>>

\* a logging request of another client while a response is being sent: the
\* server starts a second chunked response with the same callback; this
\* happens once between two restarts
handle_logging_second ==
    /\ pc = "idle"
    /\ streaming
    /\ second = NoSession
    /\ \E h \in HeapInputs :
          /\ HeapOk(h) => Len(dbglines) < MaxLines
          /\ heap' = h
          /\ dbglines' = DbgAppend(dbglines, LoggingLine, h)
    /\ second' = [NoSession EXCEPT !.streaming = TRUE]
    /\ last' = "logging_second"
    /\ UNCHANGED <<shared, outputs, clock, locals, reply, ghosts, nreq, statics,
                   session, asked>>

\* one call of cb_logging by the second response, with its own index and
\* the same statics
cb_logging_second ==
    /\ second.streaming
    /\ \E maxLen \in 1 .. MaxChunk :
          LET r == CbFill(CbStart(second.index), <<>>, maxLen)
          IN  /\ cbi' = r.s.i
              /\ nrl' = r.s.nrl
              /\ linebuf' = r.s.linebuf
              /\ p_in' = r.s.p_in
              /\ second' = [streaming |-> Len(r.buf) > 0,
                            index     |-> second.index + Len(r.buf),
                            out       |-> second.out \o r.buf,
                            chunk     |-> [maxLen |-> maxLen, len |-> Len(r.buf)],
                            snap      |-> IF second.index = 0 THEN dbglines
                                          ELSE second.snap]
    /\ last' = "cb_logging_second"
    /\ UNCHANGED <<shared, outputs, clock, locals, reply, ghosts, nreq, dbglines,
                   heap, session, asked>>

Next ==
    \/ handle_reset
    \/ timer1sec
    \/ Loop
    \/ handle_getconf
    \/ handle_setconf
    \/ handle_overrule

Spec == Init /\ [][Next]_vars

NextPreempt ==
    \/ timer1sec
    \/ Loop
    \/ SetconfBegin
    \/ SetconfIter
    \/ SetconfClear
    \/ SetconfSave
    \/ OverruleBegin
    \/ OverruleFlag
    \/ OverruleA
    \/ OverruleB

SpecPreempt == Init /\ [][NextPreempt]_vars

\* the program around the end of summer time
NextDst ==
    \/ handle_reset
    \/ timer1sec
    \/ LoopDst
    \/ handle_getconf
    \/ handle_setconf
    \/ handle_overrule

SpecDst == Init /\ [][NextDst]_vars

\* the device starts with a schedule stored in its EEPROM
InitLog ==
    /\ Init
    /\ eeprom = Scenario

\* the debug log and its streaming
NextLog ==
    \/ handle_reset
    \/ dbgprint
    \/ handle_logging
    \/ cb_logging

SpecLog == InitLog /\ [][NextLog]_vars

\* the debug log sent to two clients at a time
NextLogTwo ==
    \/ handle_reset
    \/ handle_logging
    \/ cb_logging
    \/ handle_logging_second
    \/ cb_logging_second

SpecLogTwo == InitLog /\ [][NextLogTwo]_vars

\* file requests and the test request
NextFile ==
    \/ handle_reset
    \/ handle_test
    \/ onFileRequest

SpecFile == InitLog /\ [][NextFile]_vars

\* the chunked response calls cb_logging again until it gets 0
SpecLogFair == SpecLog /\ WF_vars(cb_logging)

(***************************************************************************)
(* Properties.                                                             *)
(***************************************************************************)
\* the pair of table tbl for hour h: channel A, channel B
SlotPair(tbl, h) == <<tbl[h * 2], tbl[h * 2 + 1]>>

\* request r carries all 48 values, each in 0..100
ValidSchedule(r) == r.n = NSettings /\ \A j \in Slots : r.vals[j] \in 0 .. 100

\* handle_setconf is between its first and its last statement
SetconfRunning == pc \in {"setconf_loop", "setconf_clear", "setconf_save"}

\* handle_overrule is between its first and its last statement
OverruleRunning == pc \in {"overrule_flag", "overrule_A", "overrule_B"}

\* the positions in the list of writes w that go to pin
WritesTo(w, pin) == {k \in 1 .. Len(w) : w[k][1] = pin}

\* C1: a set-schedule request with fewer than 48 values is refused and leaves
\* the table, the stored block and the override as they were.
C1_IncompleteRejected ==
    (last = "setconf" /\ sent.n < NSettings) =>
        /\ reply.code # 200
        /\ settings = old.settings
        /\ eeprom = old.eeprom
        /\ overrule = old.overrule
        /\ ovA = old.ovA
        /\ ovB = old.ovB

\* C2: after a set-schedule request with 48 values in 0..100 the table holds
\* these values slot by slot, and a get-schedule request answers them in
\* order, each followed by a comma.
C2_RoundTrip ==
    ValidSchedule(sent) =>
        /\ \A j \in Slots : settings[j] = sent.vals[j]
        /\ (last = "getconf") =>
               (reply.code = 200 /\ reply.text = Join(sent.vals, NSettings) \o <<",">>)

C2_Witness ==
    /\ last = "getconf"
    /\ ValidSchedule(sent)
    /\ sent.vals = Pattern(1)
    /\ old.settings # Pattern(1)
    /\ reply.text = Join(Pattern(1), NSettings) \o <<",">>

\* C3: as long as the clock was never synchronized since start, loop() writes
\* no lamp and both remembered intensities stay as they were at start.
C3_UnsyncedHold ==
    ~synced => (writes = <<>> /\ intensityA = 0 /\ intensityB = 0)

\* C4: a pass of loop() with no override in force aims at the table's pair
\* for the hour of the local time, and the remembered intensities equal it.
C4_ScheduleTarget ==
    (last = "loop" /\ ~overrule) =>
        /\ target = SlotPair(settings, hour(ltime))
        /\ intensityA = settings[hour(ltime) * 2]
        /\ intensityB = settings[hour(ltime) * 2 + 1]

C4_Witness ==
    /\ last = "loop"
    /\ ~overrule
    /\ synced
    /\ hour(ltime) = 20
    /\ settings = Scenario
    /\ writes = <<<<"LAMPA", 80>>, <<"LAMPB", 40>>>>
    /\ intensityA = 80
    /\ intensityB = 40

\* C5: after an accepted override request with two values, every pass of
\* loop() aims at these two values, whatever the table and the hour, until
\* the next set-schedule request, override request or restart.
C5_OverrideStands ==
    (last = "loop" /\ Len(standing) = 2) =>
        /\ target = standing
        /\ intensityA = standing[1]
        /\ intensityB = standing[2]

C5_Witness ==
    /\ last = "loop"
    /\ standing = <<5, 5>>
    /\ settings = Scenario
    /\ hour(ltime) = 20
    /\ synced
    /\ intensityA = 5
    /\ intensityB = 5

\* C6: once a set-schedule request was accepted no override is in force, and
\* a pass of loop() after it aims at the new table's pair for the hour.
C6_SetClearsOverride ==
    fresh =>
        /\ ~overrule
        /\ (last = "loop") =>
               (target = SlotPair(settings, hour(ltime)) /\ settings = Parsed[sent])

C6_Witness ==
    /\ fresh
    /\ last = "loop"
    /\ old.overrule
    /\ settings # old.settings
    /\ target = SlotPair(settings, hour(ltime))
    /\ target # <<old.ovA, old.ovB>>

\* C7: a pass of loop() writes a lamp exactly when the intensity it aims at
\* differs from the one remembered for that lamp, each lamp on its own; a
\* write carries the intensity aimed at, which is then the one remembered.
C7_Debounce ==
    [][(last' = "loop") =>
          /\ Cardinality(WritesTo(writes', "LAMPA")) =
                 (IF target'[1] # intensityA THEN 1 ELSE 0)
          /\ Cardinality(WritesTo(writes', "LAMPB")) =
                 (IF target'[2] # intensityB THEN 1 ELSE 0)
          /\ \A k \in WritesTo(writes', "LAMPA") : writes'[k][2] = target'[1]
          /\ \A k \in WritesTo(writes', "LAMPB") : writes'[k][2] = target'[2]
          /\ Len(writes') =
                 Cardinality(WritesTo(writes', "LAMPA") \cup WritesTo(writes', "LAMPB"))
          /\ intensityA' = target'[1]
          /\ intensityB' = target'[2]]_vars

C7_Witness ==
    /\ last = "loop"
    /\ writes = <<<<"LAMPA", 7>>>>
    /\ intensityA = 7
    /\ intensityB = 5

C10_Persisted ==
    /\ [](~SetconfRunning => eeprom = settings)
    /\ [][(last' = "setup") => settings' = settings]_vars

C10_Witness ==
    /\ last = "setup"
    /\ sent.n = NSettings
    /\ settings = sent.vals
    /\ eeprom = settings
    /\ nreq >= 2

\* C11: from a restart until the first override request after it no override
\* is in force, whatever was in force before the restart, and every pass of
\* loop() in between aims at the table's pair for the hour.
C11_OverrideNotPersisted ==
    (ovsent.n = 0) =>
        /\ ~overrule
        /\ (last = "loop") => target = SlotPair(settings, hour(ltime))

C11_Witness ==
    /\ last = "loop"
    /\ ovsent.n = 0
    /\ ~fresh
    /\ old.overrule
    /\ target = SlotPair(settings, hour(ltime))
    /\ target # <<old.ovA, old.ovB>>

\* C12: once the clock was synchronized it stays so until a restart; from
\* then on a call of timer1sec() adds exactly one to the local time, a pass of
\* loop() leaves it alone or sets it to the local time of the epoch time read,
\* nothing else changes it, and loop() goes on using it.
C12_NeverUnsynced ==
    /\ [](synced => (epoch \in UtcInputs \cup DstInputs /\ ltime = Local[epoch] + ticks))
    /\ []((synced /\ last = "loop") =>
              target = (IF overrule THEN <<ovA, ovB>>
                                    ELSE SlotPair(settings, hour(ltime))))
    /\ [][(synced /\ last' # "setup") =>
              /\ synced'
              /\ (last' = "timer1sec") => (ltime' = ltime + 1)
              /\ (last' = "loop") =>
                     \/ ltime' = ltime
                     \/ (ticks' = 0 /\ ltime' = Local[epoch'])
              /\ (last' \notin {"timer1sec", "loop"}) => (ltime' = ltime)]_vars

C12_Witness ==
    /\ synced
    /\ last = "loop"
    /\ ticks = 1
    /\ ltime = Local[UtcBase] + 1
    /\ hour(ltime) = 21

\* a - b in uint32_t arithmetic
U32Sub(a, b) ==
    LET borrow == IF a[2] < b[2] THEN 1 ELSE 0
    IN  <<(a[1] - b[1] - borrow + 2 * Half) % Half, (a[2] - b[2] + Half) % Half>>

\* C13: when loop() has set a new refresh moment at uptime t, the time from t
\* to that moment is the same whatever t is: it equals the time a refresh at
\* an uptime of 7159 ms leaves.
C13_FixedCadence ==
    [][(last' = "loop" /\ rfrltm' # rfrltm) =>
          U32Sub(rfrltm', millis') =
              U32Sub(NextRefresh(U32(0, 7159)), U32(0, 7159))]_vars

\* C14: a step that changes the local time of a synchronized clock, a call
\* of timer1sec() or a refresh by loop(), never takes the local hour back:
\* the new hour is not one of the eleven hours before the old one.
C14_HourMonotonic ==
    [][(synced /\ last' # "setup" /\ ltime' # ltime) =>
          ((hour(ltime) - hour(ltime') + 24) % 24) \notin 1 .. 11]_vars

RECURSIVE Flat(_)
\* the lines of log in order, each followed by one line feed
Flat(log) ==
    IF log = <<>> THEN <<>>
    ELSE Flat(SubSeq(log, 1, Len(log) - 1)) \o log[Len(log)] \o <<"\n">>

\* a is the beginning of b
Prefix(a, b) == Len(a) <= Len(b) /\ SubSeq(b, 1, Len(a)) = a

Min(a, b) == IF a <= b THEN a ELSE b

\* C15: the chunks returned so far for one response, put together, are the
\* beginning of the lines stored at its first call, in order, each followed
\* by one line feed, and they are all of it when the response has ended.
C15_StreamReproducesLog ==
    (chunk.maxLen > 0) =>
        /\ index = Len(out)
        /\ Prefix(out, Flat(snap))
        /\ ~streaming => out = Flat(snap)

C15_Witness ==
    /\ last = "cb_logging"
    /\ ~streaming
    /\ snap = <<<<"s">>, <<"b", "c">>, <<"l", "g">>>>
    /\ out = <<"s", "\n", "b", "c", "\n", "l", "g", "\n">>

\* C16: a call of cb_logging returns maxLen bytes, or all the bytes left of
\* the lines stored at the first call when these are fewer; and a response
\* being sent ends, also when lines are appended meanwhile.
C16_StreamTerminates ==
    /\ [][(last' = "cb_logging") =>
              chunk'.len = Min(chunk'.maxLen, Len(Flat(snap')) - index)]_vars
    /\ (streaming ~> ~streaming)

C16_Witness ==
    /\ last = "cb_logging"
    /\ ~streaming
    /\ chunk.maxLen = MaxChunk
    /\ chunk.len = 0
    /\ index = Len(Flat(snap))
    /\ Len(dbglines) > Len(snap)

\* C17: a call of dbgprint() appends one line at the end of the log when the
\* free heap is above the limit and leaves the log alone when it is not;
\* no other step but a restart changes the log.
C17_LogAppendOnly ==
    [][(last' # "setup") =>
          /\ (last' \in {"dbgprint", "logging", "logging_second", "test", "file"}) =>
                 IF heap' > HeapLimit
                 THEN Len(dbglines') = Len(dbglines) + 1 /\ Prefix(dbglines, dbglines')
                 ELSE dbglines' = dbglines
          /\ (last' \notin {"dbgprint", "logging", "logging_second", "test", "file"}) =>
                 dbglines' = dbglines]_vars

C17_Witness ==
    /\ last = "dbgprint"
    /\ heap = HeapLimit
    /\ Len(dbglines) = 2
    /\ Prefix(BootLog, dbglines)

\* C18: the intensity remembered for a lamp is always the value analogWrite()
\* has set last on its pin, 0 when none was set since the start; a step
\* other than a pass of loop() or a restart changes neither, and a pass of
\* loop() changes an intensity only with a write of that value to that pin.
C18_OnlyLoopDrives ==
    /\ [](intensityA = pwm.LAMPA /\ intensityB = pwm.LAMPB)
    /\ [][(last' \notin {"loop", "setup"}) =>
              UNCHANGED <<intensityA, intensityB, pwm>>]_vars
    /\ [][(last' = "loop") =>
              /\ (intensityA' # intensityA) =>
                     \E k \in WritesTo(writes', "LAMPA") : writes'[k][2] = intensityA'
              /\ (intensityB' # intensityB) =>
                     \E k \in WritesTo(writes', "LAMPB") : writes'[k][2] = intensityB']_vars

C18_Witness ==
    /\ last = "overrule"
    /\ overrule
    /\ ovA = 5
    /\ ovB = 5
    /\ intensityA = 80
    /\ intensityB = 40
    /\ pwm = [LAMPA |-> 80, LAMPB |-> 40]

\* C19: an override request with a first value and no second one puts the
\* override in force with that value for lamp A and leaves the value for
\* lamp B as it was before the request; no override request changes the
\* table or the stored block.
C19_PermissiveOverride ==
    (last = "overrule") =>
        /\ settings = old.settings
        /\ eeprom = old.eeprom
        /\ overrule
        /\ (ovsent.n = 1) => (ovA = ovsent.vals[0] /\ ovB = old.ovB)

\* the url ends in the extension of password files
IsCredential(url) ==
    Len(url) >= 3 /\ <<url[Len(url) - 2], url[Len(url) - 1], url[Len(url)]>> = <<".", "p", "w">>

\* C20: a file request for a url ending in .pw is answered 404 "File not
\* found" and no file is sent, whether the file system holds the file or not.
C20_CredentialsNotServed ==
    (last = "file" /\ IsCredential(asked.url)) =>
        /\ reply.code = 404
        /\ reply.text = <<"File not found">>

C20_Witness ==
    /\ last = "file"
    /\ asked = [url |-> <<"/", "k", ".", "p", "w">>, exists |-> TRUE]
    /\ reply.code = 404

\* C21: a set-schedule request with k values, k below 48, with or without a
\* comma at its end, leaves the k values in slots 0..k-1 and 0 in every slot
\* from k to 47.
C21_ZeroFill ==
    (last = "setconf" /\ sent.n < NSettings) =>
        /\ \A j \in 0 .. (sent.n - 1) : settings[j] = sent.vals[j]
        /\ \A j \in sent.n .. (NSettings - 1) : settings[j] = 0

\* C22: a set-schedule request whose text is exactly the answer just given
\* to a get-schedule request leaves the table in memory and the stored block
\* as they were.
C22_GetThenSet ==
    [][(last = "getconf" /\ last' = "setconf" /\ Body[sent'] = reply.text) =>
          (settings' = settings /\ eeprom' = eeprom)]_vars

C22_Witness ==
    /\ last = "setconf"
    /\ sent = [vals |-> Erased, n |-> NSettings, comma |-> TRUE]
    /\ old.settings = Erased
    /\ settings = Erased
    /\ eeprom = Erased
    /\ nreq = 2

\* C23: with a second response started while a first is being sent, the
\* chunks returned so far for each response, put together, are still the
\* beginning of the lines stored at that response's first call, in order,
\* each followed by one line feed, and all of it when the response has ended.
C23_SessionsIndependent ==
    /\ (chunk.maxLen > 0) =>
           /\ Prefix(out, Flat(snap))
           /\ ~streaming => out = Flat(snap)
    /\ (second.chunk.maxLen > 0) =>
           /\ Prefix(second.out, Flat(second.snap))
           /\ ~second.streaming => second.out = Flat(second.snap)

\* what is in force now: the override pair, else the table's pair for the
\* hour of the local time
CurrentTarget ==
    IF overrule THEN <<ovA, ovB>> ELSE SlotPair(settings, hour(ltime))

\* both lamps remembered and set at what is in force
Settled ==
    /\ <<intensityA, intensityB>> = CurrentTarget
    /\ <<pwm.LAMPA, pwm.LAMPB>> = CurrentTarget

\* C24: one pass of loop() leaves both lamps at what is in force; from then
\* on, as long as no request is served and the hour of the local time stays,
\* calls of timer1sec() and passes of loop() leave them there, and a pass of
\* loop() writes no lamp.
C24_Stabilise ==
    /\ [](last = "loop" => Settled)
    /\ [][(Settled /\ last' \in {"timer1sec", "loop"} /\ hour(ltime') = hour(ltime)) =>
              /\ Settled'
              /\ (last' = "loop") => writes' = <<>>]_vars

C24_Witness ==
    /\ last = "loop"
    /\ writes = <<>>
    /\ synced
    /\ ~overrule
    /\ hour(ltime) = 20
    /\ settings = Scenario
    /\ intensityA = 80
    /\ intensityB = 40
    /\ pwm = [LAMPA |-> 80, LAMPB |-> 40]

\* C25: in every state, before the first time sync and after any calls of
\* timer1sec() and refreshes of the local time, the hour loop() takes from
\* the local time is in 0..23, and the two slots it reads for that hour,
\* hour*2 and hour*2+1, are slots of the table.
C25_ReadsInsideTable ==
    /\ ltime >= 0
    /\ hour(ltime) \in 0 .. 23
    /\ hour(ltime) * 2 \in DOMAIN settings
    /\ hour(ltime) * 2 + 1 \in DOMAIN settings
    /\ DOMAIN settings = Slots

C25_Witness ==
    /\ last = "loop"
    /\ synced
    /\ ~overrule
    /\ epoch = UtcBase + SecsPerHour
    /\ millis = U32(7, 41248)
    /\ hour(ltime) = 21
    /\ target = SlotPair(settings, 21)
    /\ nreq = MaxRequests

====
